---- MODULE Spec2Model ----
(***************************************************************************)
(* Model of evs/support_library/Utils.cpp: Utils::getRearCameraId().       *)
(*                                                                         *)
(* The function loads the camera configuration, acquires the EVS           *)
(* enumerator, requests the camera list and, in the list callback, picks   *)
(* the first enumerated camera that the configuration assigns to the       *)
(* "reverse" function.  The configuration (ConfigManager) and the          *)
(* enumerator (IEvsEnumerator) are collaborators: what they answer is an   *)
(* input of the model, fixed for a behaviour, so that successive calls see *)
(* the same configuration file and the same enumeration.                   *)
(***************************************************************************)
EXTENDS Integers, Sequences, FiniteSets, TLC

\* ---------------------------------------------------------------- bounds
MaxCameras == 2   \* longest camera list the enumerator reports
MaxInfos   == 2   \* most CameraInfo records in the configuration
MaxCalls   == 2   \* calls of getRearCameraId in one behaviour

\* ---------------------------------------------------------------- inputs
\* camera identifiers (opaque, compared with ==)
CameraIds == {"A", "B", "C"}

\* values of CameraInfo::function found in a configuration
Functions == {"", "front", "reverse", "reverse-assist", "parking,reverse"}

CameraInfo == [cameraId : CameraIds, function : Functions]

SeqUpTo(S, n) == UNION {[1..k -> S] : k \in 0..n}

\* std::string::npos is size_type(-1); no position of a string equals it
npos == -1

VARIABLES
    initOk,      \* what config.initialize(...) returns
    cameras,     \* what config.getCameras() yields
    svcOk,       \* whether IEvsEnumerator::getService returns non-null
    cameraList,  \* the hidl_vec<CameraDesc> the enumerator reports (cameraId's)
    pc,          \* position inside getRearCameraId, "idle" between calls
    cameraId,    \* the local `string cameraId` the callback writes
    trace,       \* collaborator calls and writes of cameraId in this call
    found,       \* cameras logged by ALOGD("Found camera %s") in this call
    results      \* values returned by the calls completed so far

env  == <<initOk, cameras, svcOk, cameraList>>
vars == <<initOk, cameras, svcOk, cameraList, pc, cameraId, trace, found, results>>

\* ------------------------------------------------------- the list callback
\* info.function.find("reverse"): lowest position at which s occurs in str
RECURSIVE Find(_, _, _)
Find(str, s, pos) ==
    IF pos + Len(s) > Len(str) THEN npos
    ELSE IF SubSeq(str, pos + 1, pos + Len(s)) = s THEN pos
    ELSE Find(str, s, pos + 1)

\* variant: the tag is compared for equality instead of searched
IsReverseInfo_ExactTag(cam, info) ==
    /\ cam = info.cameraId
    /\ info.function = "reverse"

\* variant: find() called with receiver and argument exchanged
IsReverseInfo_ReversedFind(cam, info) ==
    /\ cam = info.cameraId
    /\ Find("reverse", info.function, 0) # npos

\* the test made on one CameraInfo for one enumerated camera (lines 59, 61)
IsReverseInfo(cam, info) ==
    /\ cam = info.cameraId
    /\ Find(info.function, "reverse", 0) # npos

\* variant: the inner loop stops at the first record with the camera's id
RECURSIVE InfoLoop_FirstOccurrence(_, _, _)
InfoLoop_FirstOccurrence(cam, infos, j) ==
    IF j > Len(infos) THEN FALSE
    ELSE IF cam = infos[j].cameraId THEN IsReverseInfo(cam, infos[j])
    ELSE InfoLoop_FirstOccurrence(cam, infos, j + 1)

\* for (auto&& info : config.getCameras()), from record j on:
\* TRUE iff the `return` of line 65 is reached
RECURSIVE InfoLoop(_, _, _)
InfoLoop(cam, infos, j) ==
    IF j > Len(infos) THEN FALSE
    ELSE IF IsReverseInfo(cam, infos[j]) THEN TRUE
    ELSE InfoLoop(cam, infos, j + 1)

\* variant: no `return` after the assignment, the scan runs to the end
RECURSIVE CamLoop_LastWins(_, _, _, _)
CamLoop_LastWins(list, infos, i, log) ==
    IF i > Len(list) THEN [cameraId |-> "", writes |-> 0, found |-> log]
    ELSE LET rest == CamLoop_LastWins(list, infos, i + 1, Append(log, list[i])) IN
         IF InfoLoop(list[i], infos, 1)
         THEN [cameraId |-> IF rest.writes > 0 THEN rest.cameraId ELSE list[i],
               writes |-> rest.writes + 1, found |-> rest.found]
         ELSE rest

\* variant: the scan gives up at a camera the configuration does not know
RECURSIVE CamLoop_StopsAtUnknown(_, _, _, _)
CamLoop_StopsAtUnknown(list, infos, i, log) ==
    IF i > Len(list) THEN [cameraId |-> "", writes |-> 0, found |-> log]
    ELSE IF InfoLoop(list[i], infos, 1)
         THEN [cameraId |-> list[i], writes |-> 1, found |-> Append(log, list[i])]
         ELSE IF \A k \in 1..Len(infos) : infos[k].cameraId # list[i]
              THEN [cameraId |-> "", writes |-> 0, found |-> Append(log, list[i])]
              ELSE CamLoop_StopsAtUnknown(list, infos, i + 1, Append(log, list[i]))

\* for (auto&& cam : cameraList), from camera i on; `log` is what line 54
\* has logged so far.  Yields the value left in cameraId, the number of
\* assignments to it and the cameras logged.
RECURSIVE CamLoop(_, _, _, _)
CamLoop(list, infos, i, log) ==
    IF i > Len(list) THEN [cameraId |-> "", writes |-> 0, found |-> log]
    ELSE IF InfoLoop(list[i], infos, 1)
         THEN [cameraId |-> list[i], writes |-> 1, found |-> Append(log, list[i])]
         ELSE CamLoop(list, infos, i + 1, Append(log, list[i]))

\* variant: the loops are nested the other way round, configuration outside
GetCameraListCallback_RegistryOrder(list, infos) ==
    LET hits == {k \in 1..Len(infos) :
                    \E i \in 1..Len(list) : IsReverseInfo(list[i], infos[k])}
        first == CHOOSE k \in hits : \A m \in hits : k <= m
    IN  IF hits = {} THEN [cameraId |-> "", writes |-> 0, found |-> list]
        ELSE [cameraId |-> infos[first].cameraId, writes |-> 1, found |-> list]

\* the lambda handed to getCameraList
GetCameraListCallback(list, infos) == CamLoop(list, infos, 1, <<>>)

\* ------------------------------------------------------------------ state
\* What a ConfigManager holds after a failed initialize() is not decided in
\* Utils.cpp, so `cameras` is left unconstrained when initOk is FALSE; in the
\* same way `cameraList` is what the enumerator would report, reachable or not.
Init ==
    /\ initOk \in BOOLEAN
    /\ cameras \in SeqUpTo(CameraInfo, MaxInfos)
    /\ svcOk \in BOOLEAN
    /\ cameraList \in SeqUpTo(CameraIds, MaxCameras)
    /\ pc = "idle"
    /\ cameraId = ""
    /\ trace = <<>>
    /\ found = <<>>
    /\ results = <<>>

\* a caller enters getRearCameraId
Call ==
    /\ pc = "idle"
    /\ Len(results) < MaxCalls
    /\ pc' = "initialize"
    /\ cameraId' = ""
    /\ trace' = <<>>
    /\ found' = <<>>
    /\ UNCHANGED <<env, results>>

\* variant: the result of initialize() is not tested
Initialize_IgnoresFailure ==
    /\ pc = "initialize"
    /\ trace' = Append(trace, "initialize")
    /\ pc' = "getService"
    /\ UNCHANGED <<env, cameraId, found, results>>

\* ConfigManager config; if (!config.initialize(...)) return string();
Initialize ==
    /\ pc = "initialize"
    /\ trace' = Append(trace, "initialize")
    /\ IF initOk
       THEN pc' = "getService" /\ UNCHANGED results
       ELSE pc' = "idle" /\ results' = Append(results, "")
    /\ UNCHANGED <<env, cameraId, found>>

\* variant: a null enumerator is not tested for
GetService_NoNullCheck ==
    /\ pc = "getService"
    /\ trace' = Append(trace, "getService")
    /\ pc' = "getCameraList"
    /\ UNCHANGED <<env, cameraId, found, results>>

\* variant: a null enumerator is asked for a second time before giving up
GetService_Retries ==
    /\ pc = "getService"
    /\ trace' = Append(trace, "getService")
    /\ IF svcOk
       THEN pc' = "getCameraList" /\ UNCHANGED results
       ELSE IF trace[Len(trace)] = "getService"
            THEN pc' = "idle" /\ results' = Append(results, "")
            ELSE pc' = "getService" /\ UNCHANGED results
    /\ UNCHANGED <<env, cameraId, found>>

\* evs = IEvsEnumerator::getService(...); if (evs.get() == nullptr) return string();
GetService ==
    /\ pc = "getService"
    /\ trace' = Append(trace, "getService")
    /\ IF svcOk
       THEN pc' = "getCameraList" /\ UNCHANGED results
       ELSE pc' = "idle" /\ results' = Append(results, "")
    /\ UNCHANGED <<env, cameraId, found>>

\* variant: the callback takes the matched camera out of the configuration
GetCameraList_ConsumesConfig ==
    /\ pc = "getCameraList"
    /\ LET r == GetCameraListCallback(cameraList, cameras) IN
        /\ cameraId' = r.cameraId
        /\ found' = r.found
        /\ trace' = trace \o <<"getCameraList">> \o [k \in 1..r.writes |-> "write"]
        /\ cameras' = SelectSeq(cameras, LAMBDA info : info.cameraId # r.cameraId)
    /\ pc' = "return"
    /\ UNCHANGED <<initOk, svcOk, cameraList, results>>

\* string cameraId; evs->getCameraList(callback);
GetCameraList ==
    /\ pc = "getCameraList"
    /\ LET r == GetCameraListCallback(cameraList, cameras) IN
        /\ cameraId' = r.cameraId
        /\ found' = r.found
        /\ trace' = trace \o <<"getCameraList">> \o [k \in 1..r.writes |-> "write"]
    /\ pc' = "return"
    /\ UNCHANGED <<env, results>>

\* return cameraId;
Return ==
    /\ pc = "return"
    /\ results' = Append(results, cameraId)
    /\ pc' = "idle"
    /\ UNCHANGED <<env, cameraId, trace, found>>

Next == Call \/ Initialize \/ GetService \/ GetCameraList \/ Return

Spec == Init /\ [][Next]_vars


\* ============================================================ properties
\* Stated against the configuration and the enumeration directly, without
\* the loops of the callback.

\* s occurs somewhere in str
Contains(str, s) ==
    \E p \in 0..(Len(str) - Len(s)) : SubSeq(str, p + 1, p + Len(s)) = s

\* the configuration records carrying the camera's id
InfosOf(cam) == {k \in 1..Len(cameras) : cameras[k].cameraId = cam}

Configured(cam) == InfosOf(cam) # {}

\* some record of the camera names the reverse function
Qualifies(cam) == \E k \in InfosOf(cam) : Contains(cameras[k].function, "reverse")

QualifyingPositions == {i \in 1..Len(cameraList) : Qualifies(cameraList[i])}

FirstQualifying == CHOOSE i \in QualifyingPositions : \A m \in QualifyingPositions : i <= m

\* the callback of this call has run and the function has not returned yet
Delivered == pc = "return"

UniqueIds(infos) ==
    \A j, k \in 1..Len(infos) : infos[j].cameraId = infos[k].cameraId => j = k

PermutationsOf(infos) ==
    {[i \in 1..Len(infos) |-> infos[f[i]]] : f \in Permutations(1..Len(infos))}

Count(e) == Cardinality({k \in 1..Len(trace) : trace[k] = e})

IsPrefix(s, t) == Len(s) <= Len(t) /\ s = SubSeq(t, 1, Len(s))

\* C1: the callback leaves in cameraId the earliest camera of the enumeration
\* that has a configuration record with its id whose function contains
\* "reverse"; the cameras after it are not looked at (they are not logged),
\* and with no such camera cameraId stays empty after the whole list is seen.
C1_FirstMatchInEnumerationOrder ==
    Delivered =>
        IF QualifyingPositions = {}
        THEN cameraId = "" /\ found = cameraList
        ELSE /\ cameraId = cameraList[FirstQualifying]
             /\ found = SubSeq(cameraList, 1, FirstQualifying)

\* two different cameras qualify, the configuration lists them in the
\* opposite order, and the callback took the first enumerated one
C1_Witness ==
    /\ Delivered
    /\ Len(cameraList) = 2 /\ Len(cameras) = 2
    /\ cameraList[1] # cameraList[2]
    /\ QualifyingPositions = {1, 2}
    /\ cameras[1].cameraId = cameraList[2]
    /\ cameraId = cameraList[1]
    /\ found = <<cameraList[1]>>

\* C2: when config.initialize fails, every call returns the empty string and
\* neither the enumerator nor the camera list is reached, whatever the
\* enumeration and the configuration hold.
C2_InitFailureReturnsEmpty ==
    ~initOk =>
        /\ \A k \in 1..Len(results) : results[k] = ""
        /\ cameraId = ""
        /\ pc \in {"idle", "initialize"}

\* initialize failed although the enumeration holds a camera that qualifies
C2_Witness ==
    /\ ~initOk /\ svcOk
    /\ QualifyingPositions # {}
    /\ Len(results) >= 1
    /\ results[1] = ""

\* C3: with an empty camera list or an unreachable enumerator every call
\* returns the empty string, whatever the configuration holds; the value is
\* the same in both cases.
C3_EmptyOrUnreachableReturnsEmpty ==
    (~svcOk \/ cameraList = <<>>) =>
        /\ \A k \in 1..Len(results) : results[k] = ""
        /\ cameraId = ""

\* the enumerator is unreachable, a call has returned, and the camera list
\* it would have reported holds a qualifying camera
C3_Witness ==
    /\ initOk /\ ~svcOk
    /\ QualifyingPositions # {}
    /\ Len(results) >= 1
    /\ results[1] = ""

\* C4: a camera without a configuration record is never the result and does
\* not end the scan: the next camera is looked at, and a qualifying camera
\* further down the list is still found.
C4_UnconfiguredCameraSkipped ==
    Delivered =>
        /\ \A i \in 1..Len(cameraList) :
              ~Configured(cameraList[i]) => cameraId # cameraList[i]
        /\ \A i \in 1..Len(cameraList) :
              (/\ ~Configured(cameraList[i])
               /\ \A m \in 1..i : ~Qualifies(cameraList[m]))
              => /\ i < Len(cameraList) => Len(found) > i
                 /\ (\E m \in (i + 1)..Len(cameraList) : Qualifies(cameraList[m]))
                       => cameraId # ""

\* an unconfigured camera comes first, a qualifying one second, and the
\* second one is the result
C4_Witness ==
    /\ Delivered
    /\ Len(cameraList) = 2
    /\ ~Configured(cameraList[1])
    /\ Qualifies(cameraList[2])
    /\ cameraId = cameraList[2]
    /\ found = cameraList

\* C5: a camera is taken exactly when "reverse" occurs inside the function
\* string of one of its records; a camera whose tag merely contains "reverse"
\* ("reverse-assist") beats a later camera tagged exactly "reverse"; with
\* configuration {A: "reverse-assist", C: "reverse"} and enumeration [A, C]
\* the result is A.
C5_SubstringMatch ==
    Delivered =>
        /\ cameraId # "" =>
              \E k \in InfosOf(cameraId) : Contains(cameras[k].function, "reverse")
        /\ \A i \in 1..Len(cameraList) :
              (\E k \in InfosOf(cameraList[i]) :
                  /\ Contains(cameras[k].function, "reverse")
                  /\ cameras[k].function # "reverse")
              => \E m \in 1..i : cameraId = cameraList[m]
        /\ (/\ cameras = <<[cameraId |-> "A", function |-> "reverse-assist"],
                           [cameraId |-> "C", function |-> "reverse"]>>
            /\ cameraList = <<"A", "C">>)
           => cameraId = "A"

\* the example of the claim, after the callback
C5_Witness ==
    /\ Delivered
    /\ cameras = <<[cameraId |-> "A", function |-> "reverse-assist"],
                   [cameraId |-> "C", function |-> "reverse"]>>
    /\ cameraList = <<"A", "C">>
    /\ cameraId = "A"

\* C6: with unique ids in the configuration, the callback run on any
\* permutation of the records gives the result it gave on the configuration
\* itself; with configuration {A: "parking,reverse", B: "front"} and
\* enumeration [B, A] the result is A.
C6_RegistryOrderIrrelevant ==
    Delivered =>
        /\ UniqueIds(cameras) =>
              \A p \in PermutationsOf(cameras) :
                  GetCameraListCallback(cameraList, p).cameraId = cameraId
        /\ (/\ cameras = <<[cameraId |-> "A", function |-> "parking,reverse"],
                           [cameraId |-> "B", function |-> "front"]>>
            /\ cameraList = <<"B", "A">>)
           => cameraId = "A"

\* two qualifying cameras, configured in the order opposite to the
\* enumeration, after the callback
C6_Witness ==
    /\ Delivered
    /\ UniqueIds(cameras)
    /\ Len(cameras) = 2 /\ Len(cameraList) = 2
    /\ cameras[1].cameraId = cameraList[2]
    /\ cameras[2].cameraId = cameraList[1]
    /\ QualifyingPositions = {1, 2}
    /\ cameraId = cameraList[1]

\* C7: no step of a call changes the configuration or the enumeration, and
\* all the calls made on them return the same value.
C7_DeterministicNoMutation ==
    [][/\ env' = env
       /\ \A i, j \in 1..Len(results') : results'[i] = results'[j]]_vars

\* two calls have returned a camera
C7_Witness ==
    /\ Len(results) = 2
    /\ results[1] # ""
    /\ results[2] = results[1]
    /\ QualifyingPositions # {}

\* C8 as stated: only the first record with the camera's id decides, so the
\* result is a camera whose first record contains "reverse".
C8_FirstOccurrenceDecides ==
    Delivered =>
        (cameraId # "" =>
            LET first == CHOOSE k \in InfosOf(cameraId) :
                             \A m \in InfosOf(cameraId) : k <= m
            IN  Contains(cameras[first].function, "reverse"))

\* C8 (amended): every record with the camera's id is tested; a camera with
\* several records qualifies when any of them contains "reverse", also when
\* its first record does not, and is then the result unless an earlier
\* camera of the enumeration qualified.
C8_AnyOccurrenceDecides ==
    Delivered =>
        \A i \in 1..Len(cameraList) :
            (/\ Cardinality(InfosOf(cameraList[i])) >= 2
             /\ \E k \in InfosOf(cameraList[i]) :
                    Contains(cameras[k].function, "reverse"))
            => \E m \in 1..i : cameraId = cameraList[m] /\ Qualifies(cameraList[m])

\* a camera with two records, the first without and the second with
\* "reverse", is the result
C8_Witness ==
    /\ Delivered
    /\ Len(cameras) = 2
    /\ cameras[1].cameraId = cameras[2].cameraId
    /\ ~Contains(cameras[1].function, "reverse")
    /\ Contains(cameras[2].function, "reverse")
    /\ cameraList = <<cameras[1].cameraId>>
    /\ cameraId = cameras[1].cameraId

\* C9: a camera all of whose records have an empty function string is never
\* the result, and the scan goes on to the next camera.
C9_EmptyFunctionNeverMatches ==
    Delivered =>
        \A i \in 1..Len(cameraList) :
            (/\ Configured(cameraList[i])
             /\ \A k \in InfosOf(cameraList[i]) : cameras[k].function = "")
            => /\ cameraId # cameraList[i]
               /\ (i < Len(cameraList) /\ \A m \in 1..i : ~Qualifies(cameraList[m]))
                     => Len(found) > i

\* a camera configured with an empty function comes first, a qualifying one
\* second, and the second one is the result
C9_Witness ==
    /\ Delivered
    /\ Len(cameraList) = 2
    /\ Configured(cameraList[1])
    /\ \A k \in InfosOf(cameraList[1]) : cameras[k].function = ""
    /\ Qualifies(cameraList[2])
    /\ cameraId = cameraList[2]
    /\ found = cameraList

\* C10: in one call the steps are initialize, getService, getCameraList, one
\* write of cameraId, each at most once and in this order; initialize has
\* happened once the call is past it; after a failed initialize getService is
\* not called, with a null enumerator getCameraList is not called, and
\* cameraId is empty unless it was written.
C10_StepsInOrderNoRetry ==
    /\ IsPrefix(trace, <<"initialize", "getService", "getCameraList", "write">>)
    /\ pc \in {"getService", "getCameraList", "return"} => Count("initialize") = 1
    /\ (pc = "idle" /\ results # <<>>) => Count("initialize") = 1
    /\ ~initOk => Count("getService") = 0
    /\ ~svcOk => Count("getCameraList") = 0
    /\ Count("write") <= 1
    /\ Count("write") = 0 => cameraId = ""
    /\ pc = "return" => Count("getCameraList") = 1

\* a call has gone through all the steps and returned the camera it wrote
C10_Witness ==
    /\ pc = "idle"
    /\ trace = <<"initialize", "getService", "getCameraList", "write">>
    /\ results # <<>>
    /\ results[Len(results)] = cameraId
    /\ cameraId # ""
====
